---- MODULE Spec2Model ----
(***************************************************************************)
(* BER-TLV codec of iso7816-tlv: the tag codec (src/src/ber/tag.rs), the   *)
(* length codec and the recursive TLV engine (src/src/ber/tlv.rs), the     *)
(* value tree (src/src/ber/value.rs) and the PIV tag override              *)
(* (src/examples/piv.rs); and the SIMPLE-TLV sibling (src/src/simple.rs).  *)
(*                                                                         *)
(* Bytes are the integers 0..255.  A u64 is represented by its eight       *)
(* big-endian bytes, so that shifts keep exactly 64 bits.  A cursor        *)
(* (untrusted::Reader) is an input sequence together with the number of    *)
(* bytes already consumed.                                                 *)
(***************************************************************************)
EXTENDS Integers, Sequences, FiniteSets, TLC

VARIABLES cin, res, T, val, tlv, out

vars == <<cin, res, T, val, tlv, out>>

(***************************************************************************)
(* Bit operations on bytes                                                 *)
(***************************************************************************)
RECURSIVE BitAnd(_, _)
BitAnd(a, b) ==
  IF a = 0 \/ b = 0 THEN 0
  ELSE (a % 2) * (b % 2) + 2 * BitAnd(a \div 2, b \div 2)

RECURSIVE BitOr(_, _)
BitOr(a, b) ==
  IF a = 0 THEN b
  ELSE IF b = 0 THEN a
  ELSE (IF a % 2 = 1 \/ b % 2 = 1 THEN 1 ELSE 0) + 2 * BitOr(a \div 2, b \div 2)

(***************************************************************************)
(* Errors (src/src/error.rs)                                               *)
(***************************************************************************)
NoErr == "none"

InvalidInput == "InvalidInput"

TagIsRFU == "TagIsRFU"

TruncatedInput == "TruncatedInput"

Inconsistant == "Inconsistant"

InvalidLength == "InvalidLength"

\* tag.rs reports a malformed tag as TlvError::InvalidTag
InvalidTag == "InvalidTag"

\* impl From<core::num::ParseIntError> for TlvError
ParseIntError == "ParseIntError"

(***************************************************************************)
(* Cursor: untrusted::Reader over inp with pos bytes consumed.             *)
(* read_byte and read_bytes fail with EndOfInput, which error.rs turns     *)
(* into TruncatedInput, and leave the cursor where it was.                 *)
(***************************************************************************)
AtEnd(inp, pos) == pos >= Len(inp)

PeekByte(inp, pos) == inp[pos + 1]

CanRead(inp, pos, n) == pos + n <= Len(inp)

ReadBytes(inp, pos, n) == SubSeq(inp, pos + 1, pos + n)

ReadBytesToEnd(inp, pos) == SubSeq(inp, pos + 1, Len(inp))

(***************************************************************************)
(* Tag (src/src/ber/tag.rs)                                                *)
(***************************************************************************)
CONSTRUCTED_MASK == 32

VALUE_MASK == 127

MORE_BYTES_MASK == 128

NoTag == [raw |-> <<0, 0, 0>>, len |-> 0]

\* Tag::to_bytes: &self.raw[self.raw.len() - self.len..]
TagToBytes(t) == SubSeq(t.raw, Len(t.raw) - t.len + 1, Len(t.raw))

\* Tag::len
TagLen(t) == t.len

\* Tag::is_constructed: self.raw[3 - self.len] & CONSTRUCTED_MASK != 0
TagIsConstructed(t) == BitAnd(t.raw[3 - t.len + 1], CONSTRUCTED_MASK) # 0

\* v.to_be_bytes() of a u64, v given by its eight big-endian bytes
U64Zero == <<0, 0, 0, 0, 0, 0, 0, 0>>

\* the u64 whose big-endian form without leading zero bytes is bs (at most
\* eight bytes; the empty string is 0), as the eight bytes of v.to_be_bytes()
U64FromBytes(bs) == SubSeq(U64Zero, 1, 8 - Len(bs)) \o bs

\* value.checked_shl(8) | x: a shift by 8 < 64 never fails, the top byte is lost
U64Shl8Or(value, x) == Tail(value) \o <<x>>

\* the loop of try_from that counts leading zero bytes
RECURSIVE FirstNonZero(_, _)
FirstNonZero(bytes, i) ==
  IF i > Len(bytes) THEN i - 1
  ELSE IF bytes[i] = 0 THEN FirstNonZero(bytes, i + 1)
  ELSE i - 1

TagOk(raw, len) == [ok |-> TRUE, err |-> NoErr, tag |-> [raw |-> raw, len |-> len]]

TagErr(e) == [ok |-> FALSE, err |-> e, tag |-> NoTag]

\* impl TryFrom<u64> for Tag
TagTryFrom(v) ==
  LET first_non_zero == FirstNonZero(v, 1)
      raw == <<v[Len(v) - 2], v[Len(v) - 1], v[Len(v)]>>
      bytes == SubSeq(v, first_non_zero + 1, Len(v))
  IN CASE Len(bytes) = 0 -> TagErr(InvalidTag)
       [] Len(bytes) = 1 ->
            IF BitAnd(bytes[1], VALUE_MASK) = VALUE_MASK
            THEN TagErr(InvalidTag)
            ELSE TagOk(raw, Len(bytes))
       [] Len(bytes) = 2 ->
            IF BitAnd(bytes[2], MORE_BYTES_MASK) = MORE_BYTES_MASK
            THEN TagErr(InvalidTag)
            ELSE TagOk(raw, Len(bytes))
       [] Len(bytes) = 3 ->
            IF BitAnd(bytes[2], MORE_BYTES_MASK) = 0
            THEN TagErr(InvalidTag)
            ELSE IF BitAnd(bytes[3], MORE_BYTES_MASK) = MORE_BYTES_MASK
            THEN TagErr(InvalidTag)
            ELSE TagOk(raw, Len(bytes))
       [] OTHER -> TagErr(TagIsRFU)

\* A string is a sequence of one-character strings.
HexLower == <<"0", "1", "2", "3", "4", "5", "6", "7", "8", "9", "a", "b", "c", "d", "e", "f">>

HexUpper == <<"0", "1", "2", "3", "4", "5", "6", "7", "8", "9", "A", "B", "C", "D", "E", "F">>

\* NotADigit stands for the None of char::to_digit
NotADigit == 16

\* char::to_digit(16): the digits 0-9, a-f and A-F
ToDigit(c) ==
  IF \E i \in 1..16 : HexLower[i] = c
  THEN (CHOOSE i \in 1..16 : HexLower[i] = c) - 1
  ELSE IF \E i \in 1..16 : HexUpper[i] = c
  THEN (CHOOSE i \in 1..16 : HexUpper[i] = c) - 1
  ELSE NotADigit

\* the u64 accumulator of from_str_radix, kept as its sixteen hex digits
NibblesZero == <<0, 0, 0, 0, 0, 0, 0, 0, 0, 0, 0, 0, 0, 0, 0, 0>>

\* result * 16 + d on an accumulator whose top four bits are clear
U64Mul16Add(nibbles, d) == Tail(nibbles) \o <<d>>

\* the eight big-endian bytes of the accumulator
U64OfNibbles(n) ==
  <<n[1] * 16 + n[2], n[3] * 16 + n[4], n[5] * 16 + n[6], n[7] * 16 + n[8],
    n[9] * 16 + n[10], n[11] * 16 + n[12], n[13] * 16 + n[14], n[15] * 16 + n[16]>>

\* the digit loop of u64::from_str_radix(_, 16): fails on a character that is
\* no hex digit (InvalidDigit) and when the product leaves 64 bits (PosOverflow)
RECURSIVE FromStrRadixLoop(_, _, _)
FromStrRadixLoop(digits, i, result) ==
  IF i > Len(digits) THEN [ok |-> TRUE, value |-> U64OfNibbles(result)]
  ELSE LET d == ToDigit(digits[i])
       IN IF d = NotADigit THEN [ok |-> FALSE, value |-> U64Zero]
          ELSE IF result[1] # 0 THEN [ok |-> FALSE, value |-> U64Zero]
          ELSE FromStrRadixLoop(digits, i + 1, U64Mul16Add(result, d))

\* u64::from_str_radix(v, 16): fails on the empty string (Empty) and on a lone
\* sign; a leading "+" is skipped, a leading "-" is no digit of an unsigned type
U64FromStrRadix(v) ==
  IF v = <<>> THEN [ok |-> FALSE, value |-> U64Zero]
  ELSE IF Len(v) = 1 /\ v[1] \in {"+", "-"} THEN [ok |-> FALSE, value |-> U64Zero]
  ELSE IF v[1] = "+" THEN FromStrRadixLoop(Tail(v), 1, NibblesZero)
  ELSE FromStrRadixLoop(v, 1, NibblesZero)

\* impl TryFrom<&str> for Tag
TagTryFromStr(v) ==
  LET x == U64FromStrRadix(v)
  IN IF x.ok THEN TagTryFrom(x.value) ELSE TagErr(ParseIntError)

\* the continuation loop of Tag::read; yields the accumulated u64 and the cursor
RECURSIVE TagReadLoop(_, _, _)
TagReadLoop(inp, pos, value) ==
  IF AtEnd(inp, pos)
  THEN [ok |-> FALSE, value |-> value, pos |-> pos]
  ELSE LET x == PeekByte(inp, pos)
           v2 == U64Shl8Or(value, x)
       IN IF BitAnd(x, 128) = 0
          THEN [ok |-> TRUE, value |-> v2, pos |-> pos + 1]
          ELSE TagReadLoop(inp, pos + 1, v2)

\* Tag::read
TagRead(inp, pos) ==
  IF AtEnd(inp, pos)
  THEN TagErr(TruncatedInput) @@ [pos |-> pos]
  ELSE LET first == PeekByte(inp, pos)
           value == U64FromBytes(<<first>>)
       IN IF BitAnd(first, VALUE_MASK) = VALUE_MASK
          THEN LET l == TagReadLoop(inp, pos + 1, value)
               IN IF l.ok
                  THEN TagTryFrom(l.value) @@ [pos |-> l.pos]
                  ELSE TagErr(TruncatedInput) @@ [pos |-> l.pos]
          ELSE TagTryFrom(value) @@ [pos |-> pos + 1]

(***************************************************************************)
(* Tag capability: the tag type the engine is generic over.  T is "Tag"    *)
(* (the default, tag.rs) or "PivTag" (examples/piv.rs), which wraps a Tag  *)
(* and delegates everything but is_constructed.                            *)
(***************************************************************************)
TagKinds == {"Tag", "PivTag"}

\* impl TagTrait for PivTag: to_bytes
PivToBytes(t) == TagToBytes(t)

\* impl TagTrait for PivTag: len_as_bytes
PivLenAsBytes(t) == TagLen(t)

\* PivTag::is_constructed without the exception for tag 0x34
PivIsConstructed_NoOverride(t) == TagIsConstructed(t)

\* impl TagTrait for PivTag: is_constructed
PivIsConstructed(t) ==
  IF TagToBytes(t) = <<52>> THEN FALSE ELSE TagIsConstructed(t)

\* impl TagTrait for PivTag: read
PivRead(inp, pos) == TagRead(inp, pos)

to_bytes(K, t) == IF K = "PivTag" THEN PivToBytes(t) ELSE TagToBytes(t)

len_as_bytes(K, t) == IF K = "PivTag" THEN PivLenAsBytes(t) ELSE TagLen(t)

is_constructed(K, t) == IF K = "PivTag" THEN PivIsConstructed(t) ELSE TagIsConstructed(t)

read(K, inp, pos) == IF K = "PivTag" THEN PivRead(inp, pos) ELSE TagRead(inp, pos)

(***************************************************************************)
(* Value (src/src/ber/value.rs) and Tlv (src/src/ber/tlv.rs)               *)
(***************************************************************************)
Primitive(bs) == [constructed |-> FALSE, bytes |-> bs, tlvs |-> <<>>]

Constructed(ts) == [constructed |-> TRUE, bytes |-> <<>>, tlvs |-> ts]

NoTlv == [tag |-> NoTag, value |-> Primitive(<<>>)]

\* Value::is_constructed
ValueIsConstructed(v) == v.constructed

\* Tlv::len_length
LenLength(l) ==
  CASE l <= 127 -> 1
    [] l >= 128 /\ l <= 255 -> 2
    [] l >= 256 /\ l <= 65535 -> 3
    [] l >= 65536 /\ l <= 16777215 -> 4
    [] OTHER -> 5

RECURSIVE TlvLen(_, _), ValueLenAsBytes(_, _), SumLen(_, _, _)

\* the fold of Value::len_as_bytes over the children from index i on
SumLen(K, ts, i) ==
  IF i > Len(ts) THEN 0 ELSE TlvLen(K, ts[i]) + SumLen(K, ts, i + 1)

\* Value::len_as_bytes
ValueLenAsBytes(K, v) ==
  IF v.constructed THEN SumLen(K, v.tlvs, 1) ELSE Len(v.bytes)

\* Tlv::len that counts the value only
TlvLen_ValueOnly(K, n) == ValueLenAsBytes(K, n.value)

\* Tlv::len
TlvLen(K, n) ==
  LET inner_len == ValueLenAsBytes(K, n.value)
  IN len_as_bytes(K, n.tag) + LenLength(inner_len) + inner_len

\* Value::push that inserts the node before the existing children
ValuePush_Prepend(v, n) ==
  IF v.constructed
  THEN [ok |-> TRUE, err |-> NoErr, val |-> Constructed(<<n>> \o v.tlvs)]
  ELSE [ok |-> FALSE, err |-> Inconsistant, val |-> v]

\* Value::push
ValuePush(v, n) ==
  IF v.constructed
  THEN [ok |-> TRUE, err |-> NoErr, val |-> Constructed(Append(v.tlvs, n))]
  ELSE [ok |-> FALSE, err |-> Inconsistant, val |-> v]

TlvOk(n) == [ok |-> TRUE, err |-> NoErr, tlv |-> n]

TlvErr(e) == [ok |-> FALSE, err |-> e, tlv |-> NoTlv]

\* Tlv::new without the check of the primitive arm
TlvNew_NoPrimitiveCheck(K, tag, value) ==
  IF ValueIsConstructed(value)
  THEN IF ~is_constructed(K, tag)
       THEN TlvErr(Inconsistant)
       ELSE TlvOk([tag |-> tag, value |-> value])
  ELSE TlvOk([tag |-> tag, value |-> value])

\* Tlv::new without the check of the constructed arm
TlvNew_NoConstructedCheck(K, tag, value) ==
  IF ValueIsConstructed(value)
  THEN TlvOk([tag |-> tag, value |-> value])
  ELSE IF is_constructed(K, tag)
       THEN TlvErr(Inconsistant)
       ELSE TlvOk([tag |-> tag, value |-> value])

\* Tlv::new
TlvNew(K, tag, value) ==
  IF ValueIsConstructed(value)
  THEN IF ~is_constructed(K, tag)
       THEN TlvErr(Inconsistant)
       ELSE TlvOk([tag |-> tag, value |-> value])
  ELSE IF is_constructed(K, tag)
       THEN TlvErr(Inconsistant)
       ELSE TlvOk([tag |-> tag, value |-> value])

\* the bytes of l.to_be_bytes() left after skip_while(|x| x == 0)
RECURSIVE BeBytesNoLeadingZero(_)
BeBytesNoLeadingZero(l) ==
  IF l = 0 THEN <<>> ELSE BeBytesNoLeadingZero(l \div 256) \o <<l % 256>>

\* Tlv::inner_len_to_vec, for l = self.value.len_as_bytes()
InnerLenToVec(l) ==
  IF l < 127
  THEN <<l>>
  ELSE LET ret == BeBytesNoLeadingZero(l)
       IN <<BitOr(128, Len(ret))>> \o ret

RECURSIVE TlvToVec(_, _), ChildrenToVec(_, _, _)

\* the loop of Tlv::to_vec over the children from index i on
ChildrenToVec(K, ts, i) ==
  IF i > Len(ts) THEN <<>> ELSE TlvToVec(K, ts[i]) \o ChildrenToVec(K, ts, i + 1)

\* Tlv::to_vec
TlvToVec(K, n) ==
  to_bytes(K, n.tag)
    \o InnerLenToVec(ValueLenAsBytes(K, n.value))
    \o (IF n.value.constructed THEN ChildrenToVec(K, n.value.tlvs, 1) ELSE n.value.bytes)

LenOk(l, pos) == [ok |-> TRUE, err |-> NoErr, len |-> l, pos |-> pos]

LenErr(e, pos) == [ok |-> FALSE, err |-> e, len |-> 0, pos |-> pos]

\* the for loop of Tlv::read_len: n bytes composed big-endian
RECURSIVE ReadLenLoop(_, _, _, _)
ReadLenLoop(inp, pos, n, ret) ==
  IF n = 0 THEN LenOk(ret, pos)
  ELSE IF AtEnd(inp, pos) THEN LenErr(TruncatedInput, pos)
  ELSE ReadLenLoop(inp, pos + 1, n - 1, ret * 256 + PeekByte(inp, pos))

\* Tlv::read_len with the limit on the number of length bytes off by one
ReadLen_LimitOffByOne(inp, pos) ==
  IF AtEnd(inp, pos) THEN LenErr(TruncatedInput, pos)
  ELSE LET x == PeekByte(inp, pos)
       IN IF BitAnd(x, 128) # 0
          THEN LET n_bytes == BitAnd(x, 127)
               IN IF n_bytes >= 4
                  THEN LenErr(InvalidLength, pos + 1)
                  ELSE ReadLenLoop(inp, pos + 1, n_bytes, 0)
          ELSE LenOk(x, pos + 1)

\* Tlv::read_len
ReadLen(inp, pos) ==
  IF AtEnd(inp, pos) THEN LenErr(TruncatedInput, pos)
  ELSE LET x == PeekByte(inp, pos)
       IN IF BitAnd(x, 128) # 0
          THEN LET n_bytes == BitAnd(x, 127)
               IN IF n_bytes > 4
                  THEN LenErr(InvalidLength, pos + 1)
                  ELSE ReadLenLoop(inp, pos + 1, n_bytes, 0)
          ELSE LenOk(x, pos + 1)

ReadOk(n, pos) == [ok |-> TRUE, err |-> NoErr, tlv |-> n, pos |-> pos]

ReadErr(e, pos) == [ok |-> FALSE, err |-> e, tlv |-> NoTlv, pos |-> pos]

ChildrenOk(v, pos) == [ok |-> TRUE, err |-> NoErr, val |-> v, pos |-> pos]

ChildrenErr(e, v, pos) == [ok |-> FALSE, err |-> e, val |-> v, pos |-> pos]

RECURSIVE TlvRead(_, _, _), ReadChildren(_, _, _, _, _), PushChild(_, _, _, _, _, _),
          NextChild(_, _, _, _, _)

\* val.push(tlv)? in the loop of Tlv::read, p the result of the push
PushChild(K, inp, len, v, pos, p) ==
  IF ~p.ok THEN ChildrenErr(p.err, v, pos)
  ELSE ReadChildren(K, inp, pos, len, p.val)

\* let tlv = Tlv::read(r)? in the loop of Tlv::read, c the result of the read
NextChild(K, inp, len, v, c) ==
  IF ~c.ok THEN ChildrenErr(c.err, v, c.pos)
  ELSE PushChild(K, inp, len, v, c.pos, ValuePush(v, c.tlv))

\* the while loop of Tlv::read: children are read while val.len_as_bytes() < len
ReadChildren(K, inp, pos, len, v) ==
  IF ValueLenAsBytes(K, v) < len
  THEN NextChild(K, inp, len, v, TlvRead(K, inp, pos))
  ELSE ChildrenOk(v, pos)

\* the end of Tlv::read without the check ret.value.len_as_bytes() != len
CheckLen_NoRecheck(K, r, len, pos) ==
  IF ~r.ok THEN ReadErr(r.err, pos) ELSE ReadOk(r.tlv, pos)

\* the end of Tlv::read: Tlv::new(tag, value)? with result r, then the check
\* ret.value.len_as_bytes() != len
CheckLen(K, r, len, pos) ==
  IF ~r.ok THEN ReadErr(r.err, pos)
  ELSE IF ValueLenAsBytes(K, r.tlv.value) # len THEN ReadErr(Inconsistant, pos)
  ELSE ReadOk(r.tlv, pos)

\* the constructed arm of Tlv::read, c the result of the loop
ReadConstructed(K, tag, len, c) ==
  IF ~c.ok THEN ReadErr(c.err, c.pos)
  ELSE CheckLen(K, TlvNew(K, tag, c.val), len, c.pos)

\* the primitive arm of Tlv::read: r.read_bytes(len)?
ReadPrimitive(K, inp, tag, len, pos) ==
  IF ~CanRead(inp, pos, len) THEN ReadErr(TruncatedInput, pos)
  ELSE CheckLen(K, TlvNew(K, tag, Primitive(ReadBytes(inp, pos, len))), len, pos + len)

\* Tlv::read from let len = Tlv::read_len(r)? on, l the result of read_len
ReadAfterLen(K, inp, tag, l) ==
  IF ~l.ok THEN ReadErr(l.err, l.pos)
  ELSE IF is_constructed(K, tag)
  THEN ReadConstructed(K, tag, l.len,
                       ReadChildren(K, inp, l.pos, l.len, Constructed(<<>>)))
  ELSE ReadPrimitive(K, inp, tag, l.len, l.pos)

\* Tlv::read from let tag = Tag::read(r)? on, t the result of the tag's read
ReadAfterTag(K, inp, t) ==
  IF ~t.ok THEN ReadErr(t.err, t.pos)
  ELSE ReadAfterLen(K, inp, t.tag, ReadLen(inp, t.pos))

\* Tlv::read
TlvRead(K, inp, pos) == ReadAfterTag(K, inp, read(K, inp, pos))

\* the pair Tlv::parse returns: the result r of read and the bytes the cursor
\* has not consumed
ParseResult(input, r) ==
  [ok |-> r.ok, err |-> r.err, tlv |-> r.tlv, rest |-> ReadBytesToEnd(input, r.pos)]

\* Tlv::parse
TlvParse(K, input) == ParseResult(input, TlvRead(K, input, 0))

\* the result of Tlv::from_bytes, p the pair parse returned
FromBytesResult(p) ==
  IF Len(p.rest) # 0 THEN TlvErr(InvalidInput)
  ELSE [ok |-> p.ok, err |-> p.err, tlv |-> p.tlv]

\* Tlv::from_bytes
TlvFromBytes(K, input) == FromBytesResult(TlvParse(K, input))

(***************************************************************************)
(* Inputs of the codec specification: a byte buffer the caller fills byte  *)
(* by byte, handed to Tag::try_from (as the integer it denotes, or written  *)
(* as a string), Tag::read and Tlv::read_len.                              *)
(***************************************************************************)
\* the first MaxFree bytes of the buffer are drawn from FreeBytes
MaxFree == 3

\* the buffer holds at most MaxInput bytes
MaxInput == 10

FreeBytes == {0, 1, 31, 34, 127, 128, 129, 130, 132, 133, 255}

\* later bytes extend a run of continuation bytes or end it
ContBytes == {34, 128}

NoRes ==
  [op |-> "none", ok |-> FALSE, err |-> NoErr, tag |-> NoTag, len |-> 0, pos |-> 0,
   str |-> <<>>]

\* the length the buffer announces stays below 2^31, the range of the model's
\* integers
LenFits(inp) == Len(inp) >= 2 /\ inp[1] = 132 => inp[2] < 128

NoOut ==
  [op |-> "none", tag |-> NoTag, value |-> Primitive(<<>>), input |-> <<>>,
   ok |-> FALSE, err |-> NoErr, tlv |-> NoTlv, rest |-> <<>>, bytes |-> <<>>]

InitCodec ==
  /\ cin = <<>>
  /\ res = NoRes
  /\ T = "Tag"
  /\ val = <<>>
  /\ tlv = <<>>
  /\ out = NoOut

\* the caller appends one byte to the buffer
AppendByte ==
  /\ Len(cin) < MaxInput
  /\ \E b \in FreeBytes \cup ContBytes :
       /\ Len(cin) >= MaxFree => (b \in ContBytes /\ cin[Len(cin)] >= 128)
       /\ Len(cin) < MaxFree => b \in FreeBytes
       /\ cin' = Append(cin, b)
  /\ res' = NoRes
  /\ UNCHANGED <<T, val, tlv, out>>

\* Tag::try_from(v) for the u64 v whose big-endian bytes are the buffer
TryFromStep ==
  /\ Len(cin) <= 8
  /\ LET r == TagTryFrom(U64FromBytes(cin))
     IN res' = [op |-> "try_from", ok |-> r.ok, err |-> r.err, tag |-> r.tag,
                len |-> 0, pos |-> 0, str |-> <<>>]
  /\ UNCHANGED <<cin, T, val, tlv, out>>

\* the bytes bs written with two digits each
HexOf(bs, digits) ==
  [i \in 1..(2 * Len(bs)) |->
     IF i % 2 = 1 THEN digits[(bs[(i + 1) \div 2] \div 16) + 1]
     ELSE digits[(bs[i \div 2] % 16) + 1]]

\* the string of tests::tag_import_ok that is no number
BadOne == <<"b", "a", "d", " ", "o", "n", "e">>

\* buffers of at most MaxSigned bytes are also written in upper case and with
\* a sign
MaxSigned == 2

\* the strings a caller writes for the buffer: its hex digits, with or without
\* the leading zero digit; for a short buffer also in upper case and with a
\* sign, and a string that is no number
StrForms(bs) ==
  LET h == HexOf(bs, HexLower)
  IN {h}
       \cup (IF h # <<>> /\ h[1] = "0" THEN {Tail(h)} ELSE {})
       \cup (IF Len(bs) <= MaxSigned
             THEN {HexOf(bs, HexUpper), <<"+">> \o h, <<"-">> \o h, BadOne}
             ELSE {})

\* Tag::try_from(v) for a string v
TryFromStrStep ==
  /\ \E v \in StrForms(cin) :
       LET r == TagTryFromStr(v)
       IN res' = [op |-> "try_from_str", ok |-> r.ok, err |-> r.err, tag |-> r.tag,
                  len |-> 0, pos |-> 0, str |-> v]
  /\ UNCHANGED <<cin, T, val, tlv, out>>

\* Tag::read on a cursor at the start of the buffer
TagReadStep ==
  /\ LET r == TagRead(cin, 0)
     IN res' = [op |-> "tag_read", ok |-> r.ok, err |-> r.err, tag |-> r.tag,
                len |-> 0, pos |-> r.pos, str |-> <<>>]
  /\ UNCHANGED <<cin, T, val, tlv, out>>

\* Tlv::read_len on a cursor at the start of the buffer
ReadLenStep ==
  /\ LenFits(cin)
  /\ LET r == ReadLen(cin, 0)
     IN res' = [op |-> "read_len", ok |-> r.ok, err |-> r.err, tag |-> NoTag,
                len |-> r.len, pos |-> r.pos, str |-> <<>>]
  /\ UNCHANGED <<cin, T, val, tlv, out>>

NextCodec == AppendByte \/ TryFromStep \/ TryFromStrStep \/ TagReadStep \/ ReadLenStep

SpecCodec == InitCodec /\ [][NextCodec]_vars

(***************************************************************************)
(* The TLV engine specification: a caller that builds nodes with Tlv::new  *)
(* and Value::push, serializes them with Tlv::to_vec and decodes the bytes *)
(* with Tlv::parse and Tlv::from_bytes once no value is under construction.*)
(* val is the Value the caller is building and tlv the node it holds (each *)
(* absent or present); out records the last call and its result.           *)
(***************************************************************************)
\* a tree the caller builds holds at most MaxNodes nodes
MaxNodes == 3

\* the integers the caller turns into tags, as their big-endian bytes
NodeTagBytes == {<<1>>, <<52>>, <<127, 34>>, <<1, 34>>}

\* Tag::try_from(..).unwrap() of each of them
NodeTags == {TagTryFrom(U64FromBytes(b)).tag : b \in NodeTagBytes}

Zeros(n) == [i \in 1..n |-> 0]

\* primitive payloads
Payloads == {<<>>, <<1, 2>>, Zeros(127)}

\* bytes that follow a serialized node in the input of a decode
Trailers == {<<>>, <<255, 255>>}

\* payload lengths around the switches of the length form
BoundaryLens == {0, 1, 126, 127, 128, 255, 256, 65535, 65536}

\* Tlv::new(Tag::try_from(1u32).unwrap(), Value::Primitive(vec![0u8; l])).unwrap()
BoundaryNode(l) == TlvNew(T, TagTryFrom(U64FromBytes(<<1>>)).tag, Primitive(Zeros(l))).tlv

RECURSIVE NodeCount(_), NodeCountAll(_, _)

NodeCountAll(ts, i) ==
  IF i > Len(ts) THEN 0 ELSE NodeCount(ts[i]) + NodeCountAll(ts, i + 1)

\* number of nodes of the tree below and including n
NodeCount(n) == 1 + NodeCountAll(n.value.tlvs, 1)

Init ==
  /\ cin = <<>>
  /\ res = NoRes
  /\ T \in TagKinds
  /\ val = <<>>
  /\ tlv = <<>>
  /\ out = NoOut

\* Tlv::new(tag, Value::Primitive(payload)), the node kept when Ok
NewPrimitive ==
  \E tag \in NodeTags, payload \in Payloads :
    LET r == TlvNew(T, tag, Primitive(payload))
    IN /\ tlv' = IF r.ok THEN <<r.tlv>> ELSE tlv
       /\ out' = [NoOut EXCEPT !.op = "new", !.tag = tag, !.value = Primitive(payload),
                               !.ok = r.ok, !.err = r.err, !.tlv = r.tlv]
       /\ UNCHANGED <<cin, res, T, val>>

\* Value::Constructed(vec![])
MakeConstructed ==
  /\ val' = <<Constructed(<<>>)>>
  /\ out' = [NoOut EXCEPT !.op = "constructed", !.value = Constructed(<<>>)]
  /\ UNCHANGED <<cin, res, T, tlv>>

\* Value::Primitive(payload)
MakePrimitive ==
  /\ \E payload \in Payloads :
       /\ val' = <<Primitive(payload)>>
       /\ out' = [NoOut EXCEPT !.op = "primitive", !.value = Primitive(payload)]
  /\ UNCHANGED <<cin, res, T, tlv>>

\* val.push(tlv.clone())
Push ==
  /\ val # <<>> /\ tlv # <<>>
  /\ 1 + NodeCountAll(val[1].tlvs, 1) + NodeCount(tlv[1]) <= MaxNodes
  /\ LET r == ValuePush(val[1], tlv[1])
     IN /\ val' = <<r.val>>
        /\ out' = [NoOut EXCEPT !.op = "push", !.value = val[1], !.tlv = tlv[1],
                                !.ok = r.ok, !.err = r.err]
  /\ UNCHANGED <<cin, res, T, tlv>>

\* Tlv::new(tag, val): the value is moved into the call
New ==
  /\ val # <<>>
  /\ \E tag \in NodeTags :
       LET r == TlvNew(T, tag, val[1])
       IN /\ tlv' = IF r.ok THEN <<r.tlv>> ELSE tlv
          /\ out' = [NoOut EXCEPT !.op = "new", !.tag = tag, !.value = val[1],
                                  !.ok = r.ok, !.err = r.err, !.tlv = r.tlv]
  /\ val' = <<>>
  /\ UNCHANGED <<cin, res, T>>

\* the nodes the caller serializes: the node it holds or, holding none, a
\* fresh primitive node with a payload of a boundary length
Subjects == IF tlv = <<>> THEN {BoundaryNode(l) : l \in BoundaryLens} ELSE {tlv[1]}

\* n.to_vec()
ToVec ==
  /\ val = <<>>
  /\ \E n \in Subjects :
       out' = [NoOut EXCEPT !.op = "to_vec", !.tag = n.tag, !.value = n.value,
                            !.bytes = TlvToVec(T, n)]
  /\ UNCHANGED <<cin, res, T, val, tlv>>

\* the record of a parse call on n.to_vec() ++ s with result r
ParseOut(n, s, input, r) ==
  [NoOut EXCEPT !.op = "parse", !.tag = n.tag, !.value = n.value,
                !.input = input, !.bytes = s,
                !.ok = r.ok, !.err = r.err, !.tlv = r.tlv, !.rest = r.rest]

\* the record of a from_bytes call on n.to_vec() ++ s with result r
FromBytesOut(n, s, input, r) ==
  [NoOut EXCEPT !.op = "from_bytes", !.tag = n.tag, !.value = n.value,
                !.input = input, !.bytes = s,
                !.ok = r.ok, !.err = r.err, !.tlv = r.tlv]

\* the node the caller holds after a decode with result r: the decoded node
\* in place of the node it held, if it held one and the decode succeeded
Held(r) == IF tlv # <<>> /\ r.ok THEN <<r.tlv>> ELSE tlv

\* Tlv::parse(n.to_vec() ++ s); out.bytes records s
Parse ==
  /\ val = <<>>
  /\ \E n \in Subjects, s \in Trailers :
       /\ out' = ParseOut(n, s, TlvToVec(T, n) \o s, TlvParse(T, TlvToVec(T, n) \o s))
       /\ tlv' = Held(TlvParse(T, TlvToVec(T, n) \o s))
  /\ UNCHANGED <<cin, res, T, val>>

\* Tlv::from_bytes(n.to_vec() ++ s); out.bytes records s
FromBytes ==
  /\ val = <<>>
  /\ \E n \in Subjects, s \in Trailers :
       /\ out' = FromBytesOut(n, s, TlvToVec(T, n) \o s, TlvFromBytes(T, TlvToVec(T, n) \o s))
       /\ tlv' = Held(TlvFromBytes(T, TlvToVec(T, n) \o s))
  /\ UNCHANGED <<cin, res, T, val>>

Next == NewPrimitive \/ MakeConstructed \/ MakePrimitive \/ Push \/ New \/ ToVec \/ Parse \/ FromBytes

Spec == Init /\ [][Next]_vars

(***************************************************************************)
(* SIMPLE-TLV (src/src/simple.rs): a tag of one byte, a length of one or   *)
(* three bytes and a value of raw bytes.  A simple Tlv is a record of its  *)
(* tag byte and its value.                                                 *)
(***************************************************************************)
NoSimpleTlv == [tag |-> 0, value |-> <<>>]

SimpleOk(n) == [ok |-> TRUE, err |-> NoErr, tlv |-> n]

SimpleErr(e) == [ok |-> FALSE, err |-> e, tlv |-> NoSimpleTlv]

\* impl TryFrom<u8> for simple::Tag
SimpleTagTryFrom(v) ==
  IF v = 0 \/ v = 255
  THEN [ok |-> FALSE, err |-> InvalidInput, tag |-> 0]
  ELSE [ok |-> TRUE, err |-> NoErr, tag |-> v]

\* simple::Tlv::new
SimpleTlvNew(tag, value) ==
  IF Len(value) > 65536
  THEN SimpleErr(InvalidLength)
  ELSE SimpleOk([tag |-> tag, value |-> value])

\* simple::Tlv::to_vec; (len >> 8) as u8 and len as u8 keep the low 8 bits
SimpleToVec(n) ==
  LET len == Len(n.value)
  IN <<n.tag>>
       \o (IF len >= 255 THEN <<255, (len \div 256) % 256>> ELSE <<>>)
       \o <<len % 256>>
       \o n.value

\* simple::Tlv::read_len
SimpleReadLen(inp, pos) ==
  IF AtEnd(inp, pos) THEN LenErr(TruncatedInput, pos)
  ELSE IF PeekByte(inp, pos) = 255
  THEN ReadLenLoop(inp, pos + 1, 2, 0)
  ELSE LenOk(PeekByte(inp, pos), pos + 1)

\* simple::Tlv::read from let content = r.read_bytes(len)? on
SimpleReadContent(inp, tag, l) ==
  IF ~l.ok THEN ReadErr(l.err, l.pos) @@ [stlv |-> NoSimpleTlv]
  ELSE IF ~CanRead(inp, l.pos, l.len)
  THEN ReadErr(TruncatedInput, l.pos) @@ [stlv |-> NoSimpleTlv]
  ELSE [ok |-> TRUE, err |-> NoErr, pos |-> l.pos + l.len,
        stlv |-> [tag |-> tag, value |-> ReadBytes(inp, l.pos, l.len)]]

\* simple::Tlv::read
SimpleRead(inp, pos) ==
  IF AtEnd(inp, pos)
  THEN [ok |-> FALSE, err |-> TruncatedInput, pos |-> pos, stlv |-> NoSimpleTlv]
  ELSE IF ~SimpleTagTryFrom(PeekByte(inp, pos)).ok
  THEN [ok |-> FALSE, err |-> InvalidInput, pos |-> pos + 1, stlv |-> NoSimpleTlv]
  ELSE SimpleReadContent(inp, PeekByte(inp, pos), SimpleReadLen(inp, pos + 1))

\* the pair simple::Tlv::parse returns, r the result of read
SimpleParseResult(input, r) ==
  [ok |-> r.ok, err |-> r.err, tlv |-> r.stlv, rest |-> ReadBytesToEnd(input, r.pos)]

\* simple::Tlv::parse
SimpleParse(input) == SimpleParseResult(input, SimpleRead(input, 0))

\* the body of the loop of a parse_all that drops what it has parsed when a
\* read fails
RECURSIVE SimpleParseAll_DropOnError(_, _, _), SimpleParseAllNext_Drop(_, _, _)
SimpleParseAllNext_Drop(inp, ret, r) ==
  IF ~r.ok THEN <<>> ELSE SimpleParseAll_DropOnError(inp, r.pos, Append(ret, r.stlv))

\* parse_all that drops what it has parsed when a read fails
SimpleParseAll_DropOnError(inp, pos, ret) ==
  IF AtEnd(inp, pos) THEN ret
  ELSE SimpleParseAllNext_Drop(inp, ret, SimpleRead(inp, pos))

RECURSIVE SimpleParseAllLoop(_, _, _), SimpleParseAllNext(_, _, _)

\* the body of the loop of parse_all, r the result of read
SimpleParseAllNext(inp, ret, r) ==
  IF ~r.ok THEN ret ELSE SimpleParseAllLoop(inp, r.pos, Append(ret, r.stlv))

\* the while loop of simple::Tlv::parse_all
SimpleParseAllLoop(inp, pos, ret) ==
  IF AtEnd(inp, pos) THEN ret
  ELSE SimpleParseAllNext(inp, ret, SimpleRead(inp, pos))

\* simple::Tlv::parse_all
SimpleParseAll(input) == SimpleParseAllLoop(input, 0, <<>>)

\* the result of simple::Tlv::from_bytes, p the pair parse returned
SimpleFromBytesResult(p) ==
  IF Len(p.rest) = 0 THEN [ok |-> p.ok, err |-> p.err, tlv |-> p.tlv]
  ELSE SimpleErr(InvalidInput)

\* simple::Tlv::from_bytes
SimpleFromBytes(input) == SimpleFromBytesResult(SimpleParse(input))

RECURSIVE ParsedManual(_, _), ParsedManualNext(_, _)

\* the body of the loop of tests::parse_multiple, p the pair parse returned
ParsedManualNext(parsed_manual, p) ==
  IF ~p.ok THEN parsed_manual
  ELSE ParsedManual(p.rest, Append(parsed_manual, p.tlv))

\* the caller loop of tests::parse_multiple: parse, push, go on with the rest
ParsedManual(buf, parsed_manual) ==
  IF Len(buf) = 0 THEN parsed_manual
  ELSE ParsedManualNext(parsed_manual, SimpleParse(buf))

(***************************************************************************)
(* The SIMPLE-TLV specification: a caller that either builds an object     *)
(* with simple::Tlv::new and serializes it, or fills a buffer byte by      *)
(* byte, and that decodes the serialized object or the buffer with parse,  *)
(* parse_all and from_bytes.  tlv is the object the caller holds, cin the  *)
(* buffer and out the last call and its result.                            *)
(***************************************************************************)
\* the buffer holds at most MaxSimpleInput bytes
MaxSimpleInput == 6

\* the bytes the caller puts into the buffer
SimpleBytes == {0, 1, 2, 255}

\* the bytes the caller turns into tags
SimpleTagBytes == {0, 1, 128, 254, 255}

\* value lengths around the switch of the length form and the size limit
SimpleLens == {0, 1, 2, 254, 255, 256, 65535, 65536, 65537}

\* a value of l bytes: 0, 1, 2, ..
SimpleValue(l) == [i \in 1..l |-> (i - 1) % 256]

\* the values the caller builds objects from
SimpleValues == {SimpleValue(l) : l \in SimpleLens}

NoSimpleOut ==
  [op |-> "none", tag |-> 0, value |-> <<>>, input |-> <<>>, ok |-> FALSE,
   err |-> NoErr, tlv |-> NoSimpleTlv, rest |-> <<>>, bytes |-> <<>>,
   list |-> <<>>, manual |-> <<>>]

InitSimple ==
  /\ cin = <<>>
  /\ res = NoRes
  /\ T = "Tag"
  /\ val = <<>>
  /\ tlv = <<>>
  /\ out = NoSimpleOut

\* the caller appends one byte to the buffer
SimpleAppendByte ==
  /\ tlv = <<>>
  /\ Len(cin) < MaxSimpleInput
  /\ \E b \in SimpleBytes : cin' = Append(cin, b)
  /\ out' = NoSimpleOut
  /\ UNCHANGED <<res, T, val, tlv>>

\* simple::Tag::try_from(b)
SimpleTryFromStep ==
  /\ cin = <<>>
  /\ \E b \in SimpleTagBytes :
       LET r == SimpleTagTryFrom(b)
       IN out' = [NoSimpleOut EXCEPT !.op = "try_from", !.tag = b, !.ok = r.ok,
                                     !.err = r.err]
  /\ UNCHANGED <<cin, res, T, val, tlv>>

\* simple::Tlv::new(Tag::try_from(b)?, value), the object kept when Ok
SimpleNewStep ==
  /\ cin = <<>>
  /\ \E b \in SimpleTagBytes, value \in SimpleValues :
       /\ SimpleTagTryFrom(b).ok
       /\ LET r == SimpleTlvNew(b, value)
          IN /\ tlv' = IF r.ok THEN <<r.tlv>> ELSE tlv
             /\ out' = [NoSimpleOut EXCEPT !.op = "new", !.tag = b,
                                           !.value = value, !.ok = r.ok,
                                           !.err = r.err, !.tlv = r.tlv]
  /\ UNCHANGED <<cin, res, T, val>>

\* tlv.to_vec()
SimpleToVecStep ==
  /\ tlv # <<>>
  /\ out' = [NoSimpleOut EXCEPT !.op = "to_vec", !.tag = tlv[1].tag,
                                !.value = tlv[1].value, !.bytes = SimpleToVec(tlv[1])]
  /\ UNCHANGED <<cin, res, T, val, tlv>>

\* the bytes the caller decodes: the serialized object it holds or, holding
\* none, the buffer
SimpleInput == IF tlv = <<>> THEN cin ELSE SimpleToVec(tlv[1])

\* the record of a decode call op on input with result r
SimpleDecodeOut(op, input, r) ==
  [NoSimpleOut EXCEPT !.op = op, !.input = input, !.ok = r.ok, !.err = r.err,
                      !.tlv = r.tlv, !.rest = r.rest]

\* simple::Tlv::parse(input)
SimpleParseStep ==
  /\ out' = SimpleDecodeOut("parse", SimpleInput, SimpleParse(SimpleInput))
  /\ UNCHANGED <<cin, res, T, val, tlv>>

\* simple::Tlv::from_bytes(input)
SimpleFromBytesStep ==
  /\ out' = SimpleDecodeOut("from_bytes", SimpleInput,
                            SimpleFromBytes(SimpleInput) @@ [rest |-> <<>>])
  /\ UNCHANGED <<cin, res, T, val, tlv>>

\* simple::Tlv::parse_all(input), and the caller loop of tests::parse_multiple
\* on the same input
SimpleParseAllStep ==
  /\ out' = [NoSimpleOut EXCEPT !.op = "parse_all", !.input = SimpleInput,
                                !.list = SimpleParseAll(SimpleInput),
                                !.manual = ParsedManual(SimpleInput, <<>>)]
  /\ UNCHANGED <<cin, res, T, val, tlv>>

NextSimple ==
  \/ SimpleAppendByte
  \/ SimpleTryFromStep
  \/ SimpleNewStep
  \/ SimpleToVecStep
  \/ SimpleParseStep
  \/ SimpleFromBytesStep
  \/ SimpleParseAllStep

SpecSimple == InitSimple /\ [][NextSimple]_vars

(***************************************************************************)
(* The decode specification: a caller that fills a buffer byte by byte and *)
(* decodes it with Tlv::parse and Tlv::from_bytes (default Tag).  cin is   *)
(* the buffer and out the last call and its result.                        *)
(***************************************************************************)
\* the buffer the caller fills holds at most MaxDecodeInput bytes
MaxDecodeInput == 6

\* the bytes the caller puts into the buffer: tags (0x01, 0x21 and the invalid
\* 0x00), continuation bytes of tags, lengths in short form and in long form
\* (0x80, 0x85) and payload
DecodeBytes == {0, 1, 2, 4, 33, 128, 133}

\* the bytes the caller starts a buffer with, read as the first byte of a tag:
\* 0x01, 0x21, 0x7F (continuation bytes follow) and the invalid 0x00
DecodeFirstBytes == {0, 1, 33, 127}

\* a primitive node with a payload of 127 bytes, as it arrives on the wire
Wire127 == <<1, 127>> \o Zeros(127)

\* the buffers the caller starts from
DecodeSeeds == {<<>>, Wire127}

InitDecode ==
  /\ cin \in DecodeSeeds
  /\ res = NoRes
  /\ T = "Tag"
  /\ val = <<>>
  /\ tlv = <<>>
  /\ out = NoOut

\* the decode of the buffer still waits for input
WaitsForInput(inp) == TlvParse(T, inp).err = TruncatedInput

\* the caller appends one byte to the buffer; a buffer whose decode no longer
\* waits for input gets one trailing byte
DecodeAppend ==
  /\ Len(cin) < MaxDecodeInput
  /\ ~WaitsForInput(cin) => TlvParse(T, cin).rest = <<>>
  /\ \E b \in DecodeFirstBytes \cup DecodeBytes :
       /\ cin = <<>> => b \in DecodeFirstBytes
       /\ cin # <<>> => b \in DecodeBytes
       /\ cin' = Append(cin, b)
  /\ out' = NoOut
  /\ UNCHANGED <<res, T, val, tlv>>

\* the record of a decode call op on the buffer with result r
DecodeOut(op, input, r) ==
  [NoOut EXCEPT !.op = op, !.input = input, !.ok = r.ok, !.err = r.err,
                !.tlv = r.tlv, !.rest = r.rest]

\* Tlv::parse(&cin)
DecodeParse ==
  /\ out' = DecodeOut("parse", cin, TlvParse(T, cin))
  /\ UNCHANGED <<cin, res, T, val, tlv>>

\* Tlv::from_bytes(&cin)
DecodeFromBytes ==
  /\ out' = DecodeOut("from_bytes", cin, TlvFromBytes(T, cin) @@ [rest |-> <<>>])
  /\ UNCHANGED <<cin, res, T, val, tlv>>

NextDecode == DecodeAppend \/ DecodeParse \/ DecodeFromBytes

SpecDecode == InitDecode /\ [][NextDecode]_vars

(***************************************************************************)
(* Claims about the TLV engine (Spec)                                      *)
(***************************************************************************)
\* the node a to_vec, parse or from_bytes call of the caller started from
Subject == [tag |-> out.tag, value |-> out.value]

\* C1: for every node built with Tlv::new from a tag accepted by Tag::try_from
\* and a value (Primitive, or Constructed to any depth),
\* Tlv::from_bytes(node.to_vec()) returns Ok of a node equal to the original.
C1_RoundTrip ==
  T = "Tag" /\ out.op = "from_bytes" /\ out.bytes = <<>>
    => out.ok /\ out.tlv = Subject

\* number of bytes of the minimal big-endian form of a length l >= 128
MinLenBytes(l) ==
  IF l <= 255 THEN 1 ELSE IF l <= 65535 THEN 2 ELSE IF l <= 16777215 THEN 3 ELSE 4

RECURSIVE Pow256(_)
Pow256(k) == IF k = 0 THEN 1 ELSE 256 * Pow256(k - 1)

\* the BER length field of l: the byte l up to 127, else 0x80|k and k
\* big-endian bytes, k minimal
BerLength(l) ==
  IF l <= 127 THEN <<l>>
  ELSE LET k == MinLenBytes(l)
       IN <<128 + k>> \o [i \in 1..k |-> (l \div Pow256(k - i)) % 256]

\* C2: Tlv::to_vec emits the value length L as the single byte L whenever
\* L <= 127, and as 0x80|k followed by exactly k big-endian bytes, k minimal,
\* whenever L >= 128.
C2_LengthForm ==
  out.op = "to_vec" =>
    LET L == ValueLenAsBytes(T, out.value)
        tl == Len(TagToBytes(out.tag))
    IN /\ SubSeq(out.bytes, tl + 1, tl + Len(BerLength(L))) = BerLength(L)
       /\ ~out.value.constructed => Len(out.bytes) = tl + Len(BerLength(L)) + L

\* C3: Tlv::new(tag, value) returns Err(Inconsistant) whenever
\* tag.is_constructed() differs from value.is_constructed(), and Ok holding
\* exactly the given tag and value whenever they agree.
C3_NewConsistency ==
  out.op = "new" =>
    IF is_constructed(T, out.tag) # ValueIsConstructed(out.value)
    THEN ~out.ok /\ out.err = Inconsistant
    ELSE out.ok /\ out.tlv = [tag |-> out.tag, value |-> out.value]

\* Tlv::new has refused a constructed tag with a Primitive value
C3_Witness ==
  /\ out.op = "new" /\ ~out.ok /\ out.err = Inconsistant
  /\ is_constructed(T, out.tag) /\ ~ValueIsConstructed(out.value)
  /\ TagToBytes(out.tag) = <<127, 34>>

\* C4: for every node n and trailing bytes s, Tlv::parse(n.to_vec() ++ s)
\* returns (Ok(m), s) with m.to_vec() = n.to_vec(), and Tlv::from_bytes on the
\* same input returns Err(InvalidInput) whenever s is not empty.
C4_StrictLenient ==
  /\ T = "Tag" /\ out.op = "parse"
       => out.ok /\ out.rest = out.bytes /\ TlvToVec(T, out.tlv) = TlvToVec(T, Subject)
  /\ T = "Tag" /\ out.op = "from_bytes" /\ out.bytes # <<>>
       => ~out.ok /\ out.err = InvalidInput

\* C10: with the PivTag wrapper, which overrides only is_constructed (false for
\* the raw tag byte 0x34), the engine decodes an input that starts with the tag
\* 0x34 as a primitive node whose payload is the declared number of bytes after
\* the length ([0x34, 2, 1, 2] gives payload [1, 2]), Tlv::new accepts
\* (0x34, Primitive), and to_vec emits the tag bytes of the default Tag.
C10_PivOverride ==
  /\ T = "PivTag" /\ out.op = "parse" /\ Head(out.input) = 52
       => /\ out.ok
          /\ ~ValueIsConstructed(out.tlv.value)
          /\ TagToBytes(out.tlv.tag) = <<52>>
          /\ out.tlv.value.bytes = SubSeq(out.input, Len(out.input) - Len(out.rest)
                                            - ValueLenAsBytes(T, out.tlv.value) + 1,
                                          Len(out.input) - Len(out.rest))
          /\ (out.input = <<52, 2, 1, 2>> => out.tlv.value.bytes = <<1, 2>> /\ out.rest = <<>>)
  /\ T = "PivTag" /\ out.op = "new" /\ TagToBytes(out.tag) = <<52>>
       /\ ~ValueIsConstructed(out.value)
       => out.ok /\ out.tlv = [tag |-> out.tag, value |-> out.value]
  /\ T = "PivTag" /\ out.op = "to_vec"
       => SubSeq(out.bytes, 1, TagLen(out.tag)) = TagToBytes(out.tag)

\* [0x34, 2, 1, 2] has been decoded with PivTag as a primitive node
C10_Witness ==
  /\ T = "PivTag" /\ out.op = "parse" /\ out.input = <<52, 2, 1, 2>>
  /\ out.ok /\ out.tlv.value = Primitive(<<1, 2>>)

\* the number of bytes the children of a value serialize to
RECURSIVE ChildrenBytes(_, _, _)
ChildrenBytes(K, ts, i) ==
  IF i > Len(ts) THEN 0 ELSE Len(TlvToVec(K, ts[i])) + ChildrenBytes(K, ts, i + 1)

\* C15: for every node, Tlv::len() (tag length + len_length(value length) +
\* value length) equals the number of bytes Tlv::to_vec() produces; hence for
\* every Constructed value len_as_bytes() equals the sum of the lengths of its
\* children's to_vec() outputs, and the length field a node emits equals the
\* number of value bytes that follow it.
C15_EncodedLength ==
  out.op = "to_vec" =>
    /\ Len(out.bytes) = TlvLen(T, Subject)
    /\ ValueIsConstructed(out.value)
         => ValueLenAsBytes(T, out.value) = ChildrenBytes(T, out.value.tlvs, 1)
    /\ LET l == ReadLen(out.bytes, TagLen(out.tag))
       IN l.ok /\ l.len = Len(out.bytes) - l.pos

\* a node and each of its descendants has a tag and a value that agree on
\* being constructed
RECURSIVE Consistent(_, _)
Consistent(K, n) ==
  /\ is_constructed(K, n.tag) = ValueIsConstructed(n.value)
  /\ \A i \in 1..Len(n.value.tlvs) : Consistent(K, n.value.tlvs[i])

\* C16: every Tlv obtained through any sequence of Tlv::new, Value::push,
\* Tlv::parse and Tlv::from_bytes calls satisfies, as does each of its
\* descendants at every depth, tag.is_constructed() == value.is_constructed().
C16_Structural ==
  /\ tlv # <<>> => Consistent(T, tlv[1])
  /\ val # <<>> => \A i \in 1..Len(val[1].tlvs) : Consistent(T, val[1].tlvs[i])
  /\ out.op \in {"new", "parse", "from_bytes"} /\ out.ok => Consistent(T, out.tlv)

\* the caller holds a decoded node with a constructed child that has a child
C16_Witness ==
  /\ out.op = "from_bytes" /\ out.ok /\ tlv = <<out.tlv>>
  /\ Len(out.tlv.value.tlvs) = 1
  /\ Len(out.tlv.value.tlvs[1].value.tlvs) = 1
  /\ ~ValueIsConstructed(out.tlv.value.tlvs[1].value.tlvs[1].value)

\* C11: Value::push on a Primitive value returns Err(Inconsistant) and leaves
\* the value's bytes unchanged; on a Constructed value (also an empty one) it
\* returns Ok, appends the node as the last child and leaves the existing
\* children and their order unchanged, so that len_as_bytes grows by exactly
\* the len() of the pushed node.
C11_Push ==
  out.op = "push" =>
    IF ~ValueIsConstructed(out.value)
    THEN ~out.ok /\ out.err = Inconsistant /\ val = <<out.value>>
    ELSE /\ out.ok
         /\ ValueIsConstructed(val[1])
         /\ Len(val[1].tlvs) = Len(out.value.tlvs) + 1
         /\ val[1].tlvs[Len(val[1].tlvs)] = out.tlv
         /\ SubSeq(val[1].tlvs, 1, Len(out.value.tlvs)) = out.value.tlvs
         /\ ValueLenAsBytes(T, val[1])
              = ValueLenAsBytes(T, out.value) + TlvLen(T, out.tlv)

\* a node has been pushed onto a Constructed value that held a different child
C11_Witness ==
  /\ out.op = "push" /\ out.ok
  /\ Len(out.value.tlvs) = 1 /\ out.value.tlvs[1] # out.tlv
  /\ Len(val[1].tlvs) = 2

(***************************************************************************)
(* Claims about the tag codec and the length codec (SpecCodec)             *)
(***************************************************************************)
\* the BER tag grammar of ISO/IEC 7816-4: one byte whose low 5 bits are not all
\* 1, or a first byte whose low 5 bits are 0x1F followed by 1 or 2 continuation
\* bytes of which only the last has its top bit clear
ObeysTagGrammar(bs) ==
  \/ Len(bs) = 1 /\ bs[1] % 32 # 31
  \/ /\ Len(bs) \in {2, 3}
     /\ bs[1] % 32 = 31
     /\ \A i \in 2..(Len(bs) - 1) : bs[i] >= 128
     /\ bs[Len(bs)] < 128

\* C5: every Tag that Tag::try_from or Tag::read returns as Ok has a byte
\* encoding (to_bytes) that obeys the BER tag grammar; in particular a 1-byte
\* value whose low 5 bits are 0x1F is rejected.
C5_TagGrammar ==
  res.op \in {"try_from", "tag_read"} /\ res.ok => ObeysTagGrammar(TagToBytes(res.tag))

\* bytes that may follow a tag on the cursor
TagSuffixes == {<<>>, <<0>>, <<34>>, <<129, 255>>}

\* C6: for every Tag t accepted by Tag::try_from (from an integer or from a
\* string), Tag::read on t.to_bytes() followed by any bytes returns Ok(t) and
\* consumes exactly t.len() bytes, and t.to_bytes().len() = t.len().
C6_TagSymmetry ==
  res.op \in {"try_from", "try_from_str"} /\ res.ok =>
    /\ Len(TagToBytes(res.tag)) = TagLen(res.tag)
    /\ \A s \in TagSuffixes :
         LET r == TagRead(TagToBytes(res.tag) \o s, 0)
         IN r.ok /\ r.tag = res.tag /\ r.pos = TagLen(res.tag)

\* number of bytes of the big-endian form of the buffer's integer, without
\* leading zero bytes
RECURSIVE SignificantBytes(_)
SignificantBytes(bs) ==
  IF bs = <<>> THEN 0
  ELSE IF Head(bs) = 0 THEN SignificantBytes(Tail(bs))
  ELSE Len(bs)

\* index of the first byte from index i on whose top bit is clear, 0 if none
RECURSIVE Terminator(_, _)
Terminator(bs, i) ==
  IF i > Len(bs) THEN 0
  ELSE IF bs[i] < 128 THEN i
  ELSE Terminator(bs, i + 1)

\* the first byte announces continuation bytes (its low 5 bits are 0x1F)
AnnouncesContinuation(bs) == Len(bs) >= 1 /\ bs[1] % 32 = 31

\* C7: a tag needing 4 or more bytes is rejected with TagIsRFU: Tag::try_from(v)
\* gives TagIsRFU for every v of 4 to 8 significant bytes and InvalidTag for
\* v = 0, and Tag::read gives TagIsRFU for every terminated continuation
\* structure of 4 or more bytes in total.
C7_RFU ==
  /\ res.op = "try_from" /\ SignificantBytes(cin) >= 4 => ~res.ok /\ res.err = TagIsRFU
  /\ res.op = "try_from" /\ SignificantBytes(cin) = 0 => ~res.ok /\ res.err = InvalidTag
  /\ res.op = "tag_read" /\ AnnouncesContinuation(cin) /\ Terminator(cin, 2) >= 4
       => ~res.ok /\ res.err = TagIsRFU

\* C8: when the input ends while a continuation byte is still expected (the
\* first byte announces continuation and no byte after it has its top bit
\* clear), Tag::read fails with TruncatedInput; so does an empty input.
C8_TruncatedTag ==
  res.op = "tag_read" /\ (cin = <<>> \/ (AnnouncesContinuation(cin) /\ Terminator(cin, 2) = 0))
    => ~res.ok /\ res.err = TruncatedInput

\* the big-endian value of a byte string
RECURSIVE BigEndian(_)
BigEndian(bs) ==
  IF bs = <<>> THEN 0
  ELSE bs[Len(bs)] + 256 * BigEndian(SubSeq(bs, 1, Len(bs) - 1))

\* C9: Tlv::read_len returns the first byte itself when its top bit is clear;
\* with the top bit set and k the low 7 bits it fails with InvalidLength if
\* k > 4, having read only the first byte, and otherwise reads exactly k bytes
\* and returns their big-endian value (0 for k = 0), or fails with
\* TruncatedInput if fewer than k bytes remain (or the input is empty).
C9_ReadLen ==
  res.op = "read_len" =>
    IF cin = <<>> THEN ~res.ok /\ res.err = TruncatedInput
    ELSE IF cin[1] < 128 THEN res.ok /\ res.len = cin[1] /\ res.pos = 1
    ELSE LET k == cin[1] - 128
         IN IF k > 4 THEN ~res.ok /\ res.err = InvalidLength /\ res.pos = 1
            ELSE IF Len(cin) - 1 < k THEN ~res.ok /\ res.err = TruncatedInput
            ELSE /\ res.ok
                 /\ res.len = BigEndian(SubSeq(cin, 2, k + 1))
                 /\ res.pos = k + 1

\* a two-byte long form has been read in full, with bytes left on the cursor
C9_Witness ==
  /\ res.op = "read_len" /\ res.ok
  /\ Len(cin) >= 4 /\ cin[1] = 130 /\ cin[2] = 1
  /\ res.len >= 256 /\ res.pos = 3

(***************************************************************************)
(* Claims about SIMPLE-TLV (SpecSimple)                                    *)
(***************************************************************************)
\* C12: simple::Tlv::new(tag, value) fails with InvalidLength if the value is
\* longer than 65_535 bytes, and succeeds for every value of 65_535 bytes or
\* fewer.
C12_SizeLimit ==
  out.op = "new" =>
    IF Len(out.value) > 65535
    THEN ~out.ok /\ out.err = InvalidLength
    ELSE out.ok /\ out.tlv = [tag |-> out.tag, value |-> out.value]

\* the SIMPLE-TLV length field of l: one byte below 255, else 0xFF and two
\* big-endian bytes
SimpleLength(l) ==
  IF l < 255 THEN <<l>> ELSE <<255, l \div 256, l % 256>>

\* C13: for every tag byte in 1..=254 and every value for which
\* simple::Tlv::new succeeds, simple::Tlv::from_bytes(tlv.to_vec()) returns Ok
\* of a Tlv equal to the original, where to_vec writes the length as one byte
\* if it is below 255 and as 0xFF followed by two big-endian bytes otherwise.
C13_SimpleRoundTrip ==
  /\ tlv # <<>> /\ out.op = "from_bytes" => out.ok /\ out.tlv = tlv[1]
  /\ out.op = "to_vec" =>
       out.bytes = <<out.tag>> \o SimpleLength(Len(out.value)) \o out.value

\* C14: for every input, simple::Tlv::parse_all(input) returns the same list,
\* in the same order, as a caller loop that calls simple::Tlv::parse on the
\* remaining bytes, pushes each Ok result, goes on with the returned remainder
\* and stops at the first error or when the remainder is empty.
C14_ParseAll ==
  out.op = "parse_all" => out.list = out.manual

\* parse_all has kept two objects parsed before an error
C14_Witness ==
  /\ out.op = "parse_all" /\ Len(out.list) = 2 /\ out.list = out.manual
  /\ ~SimpleFromBytes(out.input).ok
  /\ Len(out.input) > Len(SimpleToVec(out.list[1])) + Len(SimpleToVec(out.list[2]))

(***************************************************************************)
(* Claims about the decode of a buffer (SpecDecode)                        *)
(***************************************************************************)
\* the tag at the start of the decoded buffer
HeaderTag == read(T, out.input, 0)

\* the declared length that follows the tag
HeaderLen == ReadLen(out.input, HeaderTag.pos)

\* the buffer starts with a tag and a length that were read
HasHeader == HeaderTag.ok /\ HeaderLen.ok

RECURSIVE Accumulated(_, _, _, _, _), AccumulatedNext(_, _, _, _, _)

\* one more child c has been decoded
AccumulatedNext(K, inp, L, acc, c) ==
  IF ~c.ok THEN [ok |-> FALSE, total |-> acc]
  ELSE Accumulated(K, inp, c.pos, L, acc + TlvLen(K, c.tlv))

\* the accumulated len() of the children decoded one after the other from pos
\* on, until it reaches L or a child fails to decode
Accumulated(K, inp, pos, L, acc) ==
  IF acc >= L THEN [ok |-> TRUE, total |-> acc]
  ELSE AccumulatedNext(K, inp, L, acc, TlvRead(K, inp, pos))

\* the accumulated len() of the children of the node at the start of the buffer
HeaderAccumulated == Accumulated(T, out.input, HeaderLen.pos, HeaderLen.len, 0)

\* C17: when a node with a constructed tag and declared length L is decoded,
\* children are decoded from the same cursor until their accumulated len()
\* reaches L; if the accumulated total ends above L the decode fails with
\* Inconsistant and returns no node, and every node a successful decode
\* returns has value.len_as_bytes() = L (L = 0 gives an empty Constructed
\* value).
C17_ExactLength ==
  out.op = "parse" /\ HasHeader =>
    /\ out.ok => ValueLenAsBytes(T, out.tlv.value) = HeaderLen.len
    /\ is_constructed(T, HeaderTag.tag) =>
         /\ out.ok => ValueIsConstructed(out.tlv.value) /\ HeaderAccumulated.ok
         /\ out.ok /\ HeaderLen.len = 0 => out.tlv.value = Constructed(<<>>)
         /\ HeaderAccumulated.ok /\ HeaderAccumulated.total > HeaderLen.len
              => ~out.ok /\ out.err = Inconsistant /\ out.tlv = NoTlv
         /\ HeaderAccumulated.ok /\ HeaderAccumulated.total = HeaderLen.len
              => out.ok

\* a child that extends past the declared length has been decoded and the
\* decode has failed with Inconsistant
C17_Witness ==
  /\ out.op = "parse" /\ HasHeader /\ is_constructed(T, HeaderTag.tag)
  /\ HeaderAccumulated.ok /\ HeaderAccumulated.total > HeaderLen.len
  /\ ~out.ok /\ out.err = Inconsistant

\* C18: for every input on which Tlv::parse returns (Ok(node), rest), the
\* input equals node.to_vec() followed by rest: re-encoding a decoded node
\* reproduces exactly the bytes the decode consumed, and the number of bytes
\* consumed equals node.len().
C18_ByteFidelity ==
  out.op = "parse" /\ out.ok =>
    /\ out.input = TlvToVec(T, out.tlv) \o out.rest
    /\ Len(out.input) - Len(out.rest) = TlvLen(T, out.tlv)

\* the outcome of decoding one node from the decoded buffer
Decoded == TlvParse(T, out.input)

\* C19: Tlv::from_bytes returns Err(InvalidInput) only when decoding one node
\* from the input succeeded and unconsumed bytes remain; when decoding the node
\* itself fails (malformed or RFU tag, TruncatedInput, InvalidLength,
\* Inconsistant), from_bytes returns that decode error unchanged.
C19_ErrorClass ==
  out.op = "from_bytes" =>
    /\ ~out.ok /\ out.err = InvalidInput => Decoded.ok /\ Decoded.rest # <<>>
    /\ ~Decoded.ok => ~out.ok /\ out.err = Decoded.err

Errors == {InvalidInput, TagIsRFU, TruncatedInput, Inconsistant, InvalidLength, InvalidTag}

Max(a, b) == IF a >= b THEN a ELSE b

\* the calls of Tlv::read below one call, as a record: depth is the number of
\* calls nested inside it (0 when it calls none), progress says that every
\* nested call that returned a node consumed at least 2 bytes and added at
\* least 2 to the accumulated length of its caller
NoCalls == [depth |-> 0, progress |-> TRUE]

RECURSIVE Calls(_, _, _), ChildCalls(_, _, _, _, _), ChildCallsNext(_, _, _, _, _, _)

\* the calls below the call that reads a node with tag result t and length
\* result l
CallsAfterHeader(K, inp, t, l) ==
  IF ~t.ok \/ ~l.ok THEN NoCalls
  ELSE IF ~is_constructed(K, t.tag) THEN NoCalls
  ELSE ChildCalls(K, inp, l.pos, l.len, 0)

\* the calls below the call Tlv::read makes on the cursor at pos
Calls(K, inp, pos) ==
  CallsAfterHeader(K, inp, read(K, inp, pos), ReadLen(inp, read(K, inp, pos).pos))

\* the child call at pos with result c and the calls below it, then the later
\* child calls of the same loop
ChildCallsNext(K, inp, pos, L, acc, c) ==
  [depth |-> Max(1 + Calls(K, inp, pos).depth,
                 IF c.ok
                 THEN ChildCalls(K, inp, c.pos, L, acc + TlvLen(K, c.tlv)).depth
                 ELSE 0),
   progress |-> /\ Calls(K, inp, pos).progress
                /\ c.ok => /\ c.pos - pos >= 2
                           /\ TlvLen(K, c.tlv) >= 2
                           /\ ChildCalls(K, inp, c.pos, L, acc + TlvLen(K, c.tlv)).progress]

\* the child calls of the loop of Tlv::read from pos on, acc the accumulated
\* length so far
ChildCalls(K, inp, pos, L, acc) ==
  IF acc >= L THEN NoCalls
  ELSE ChildCallsNext(K, inp, pos, L, acc, TlvRead(K, inp, pos))

\* C20: for every input Tlv::parse ends with Ok or Err; each recursive
\* Tlv::read call that returns a node has consumed at least 2 bytes and adds at
\* least 2 to its parent's accumulated length, and the recursion depth (the
\* number of read calls nested inside the outermost one) never exceeds half the
\* input length.
C20_Termination ==
  out.op = "parse" =>
    /\ IF out.ok THEN out.err = NoErr ELSE out.err \in Errors
    /\ out.ok => /\ Len(out.input) - Len(out.rest) >= 2
                 /\ TlvLen(T, out.tlv) >= 2
    /\ Calls(T, out.input, 0).progress
    /\ 2 * Calls(T, out.input, 0).depth <= Len(out.input)

\* a decode has nested two calls on an input of four bytes
C20_Witness ==
  /\ out.op = "parse" /\ Len(out.input) = 4
  /\ Calls(T, out.input, 0).depth = 2

====
